---- MODULE Spec2Model ----
(***************************************************************************)
(* Weather-Bot: relay of BOM Queensland warnings to a Discord webhook.     *)
(*                                                                         *)
(* The repository holds two scripts that share the state file              *)
(* sent_warnings.json:                                                     *)
(*   "gh"  .github/scripts/bom_to_discord.py  (RSS feed, two fallbacks)    *)
(*   "sc"  scripts/bom_to_discord.py          (HTML scrape, one source)    *)
(* One invocation of a script is one run of main().  An alert is modelled  *)
(* by its id (the only field main() decides on).                           *)
(***************************************************************************)
EXTENDS FiniteSets, Integers, Sequences, TLC

\* ---- bounds ----
NumIds == 2
MaxFeed == 2

IdNames == <<"A1", "A2", "A3", "A4">>
Ids == {IdNames[k] : k \in 1..NumIds}

NO_WARNINGS == "NO_WARNINGS"
SENT_IDS_KEY == "sent_ids"

Scripts == {"gh", "sc"}
GhSources == {"reg", "www", "cap"}
Sources == GhSources \cup {"html"}

RECURSIVE SeqsUpTo(_, _)
SeqsUpTo(S, n) ==
    IF n = 0 THEN {<<>>}
    ELSE LET shorter == SeqsUpTo(S, n - 1)
         IN  shorter \cup {Append(s, x) : s \in shorter, x \in S}

Range(s) == {s[k] : k \in 1..Len(s)}

\* fetch_bom_warnings de-duplicates what it found, keeping the order
IsUnique(s) == \A a, b \in 1..Len(s) : s[a] = s[b] => a = b

Feeds == SeqsUpTo(Ids, MaxFeed)

Unknown == [st |-> "unk", list |-> <<>>]
Failure == [st |-> "fail", list |-> <<>>]
Success(l) == [st |-> "ok", list |-> l]

\* What one fetch+parse of a source can produce.
ResultsOf(src) ==
    {Failure} \cup
    {Success(l) : l \in IF src = "html" THEN {f \in Feeds : IsUnique(f)} ELSE Feeds}

NothingFetched == [s \in Sources |-> Unknown]

\* ---- the persisted record sent_warnings.json ----
Absent == [shape |-> "absent", ids |-> {}]
Corrupt == [shape |-> "corrupt", ids |-> {}]
ObjectFile(S) == [shape |-> "object", ids |-> S]
ArrayFile(S) == [shape |-> "array", ids |-> S]

FileIds == Ids \cup {NO_WARNINGS, SENT_IDS_KEY}
Files == {Absent, Corrupt} \cup {ObjectFile(S) : S \in SUBSET FileIds}
                           \cup {ArrayFile(S) : S \in SUBSET FileIds}

\* load_sent_ids: only the {"sent_ids": [...]} object is understood; a JSON
\* array has no .get, the exception is swallowed and the set is empty.
load_sent_ids(f) == IF f.shape = "object" THEN f.ids ELSE {}

\* load_sent: set(json.loads(text)); the set of a dict is the set of its keys.
load_sent(f) ==
    CASE f.shape = "array" -> f.ids
      [] f.shape = "object" -> {SENT_IDS_KEY}
      [] OTHER -> {}

save_sent_ids(ids) == ObjectFile(ids)
save_sent(sent_set) == ArrayFile(sent_set)

Load(s, f) == IF s = "gh" THEN load_sent_ids(f) ELSE load_sent(f)
Save(s, ids) == IF s = "gh" THEN save_sent_ids(ids) ELSE save_sent(ids)

VARIABLES
    file,           \* content of sent_warnings.json
    script,         \* which script the invocation runs
    webhook,        \* DISCORD_WEBHOOK_URL is set
    upstream,       \* what each source answers, once it has been asked
    pc,             \* position of the invocation in main()
    sent_ids,       \* sent_ids / sent
    warnings_list,  \* warnings_list / current_warnings
    new_ones,       \* new_ones (scripts/ only)
    i,              \* position of the for loop
    arg,            \* the set handed to save
    notifs,         \* notify calls of this invocation, in order
    status,         \* outcome of the invocation
    file0,          \* the record as it was when the invocation started
    delivered,      \* ids whose notification the webhook has accepted, ever
    prev,           \* summary of the previous invocation
    cleared,        \* "no current warnings" was delivered / feed came back since
    alert,          \* lengths of title, link and description of a feed item
    body            \* the text of the last alert message given to the webhook

vars == <<file, script, webhook, upstream, pc, sent_ids, warnings_list,
          new_ones, i, arg, notifs, status, file0, delivered, prev,
          cleared, alert, body>>

Note(kind, id, res) == [kind |-> kind, id |-> id, res |-> res]

NoPrev == [ran |-> FALSE, nofail |-> TRUE, rejected |-> "-"]

Rejections(log) == {k \in 1..Len(log) : log[k].res \in {"rejected", "unset"}}
RejectedAlert(log) ==
    IF \E k \in 1..Len(log) : log[k].kind = "alert" /\ log[k].res = "rejected"
    THEN (log[CHOOSE k \in 1..Len(log) :
                 log[k].kind = "alert" /\ log[k].res = "rejected"]).id
    ELSE "-"
Summary(log) == [ran |-> TRUE, nofail |-> Rejections(log) = {},
                 rejected |-> RejectedAlert(log)]

\* ---- "No current warnings" across runs ----
\* quiet: the notification was delivered and no run over a non-empty alert
\* list has saved since; rearmed: such a run has saved after a delivery
NotCleared == [quiet |-> FALSE, rearmed |-> FALSE]

\* send_to_discord_content("No current QLD BOM warnings.") with outcome res
AfterCleared(c, res) == IF res = "ok" THEN [c EXCEPT !.quiet = TRUE] ELSE c

\* the save that ends the loop over a non-empty warnings_list
AfterWarnings(c) == [quiet |-> FALSE, rearmed |-> c.rearmed \/ c.quiet]

\* ---- the text of an alert message; strings are kept as their lengths ----
Prefix == <<"U+26A0", "U+FE0F", " ", "*", "*">>
Suffix == <<"*", "*">>
Newline == <<"\n">>
DescCut == 1800

\* length of text[:k] for a text of length n
Slice(n, k) == IF n < k THEN n ELSE k

\* text = f"<warning sign> **{title}**", then "\n{link}" if there is a link,
\* else "\n{desc[:1800]}" if there is a description
send_to_discord_warning(title, link, desc) ==
    LET head == Len(Prefix) + title + Len(Suffix) IN
    IF link > 0
    THEN [title |-> title, link |-> link, desc |-> 0,
          len |-> head + Len(Newline) + link]
    ELSE IF desc > 0
    THEN [title |-> title, link |-> 0, desc |-> Slice(desc, DescCut),
          len |-> head + Len(Newline) + Slice(desc, DescCut)]
    ELSE [title |-> title, link |-> 0, desc |-> 0, len |-> head]

\* the embed's "description" is warning_text as it was scraped
send_discord(warning_text) ==
    [title |-> warning_text, link |-> 0, desc |-> 0, len |-> warning_text]

\* the message script s builds for feed item a
Posted(s, a) ==
    IF s = "gh" THEN send_to_discord_warning(a.title, a.link, a.desc)
    ELSE send_discord(a.title)

NoBody == [title |-> 0, link |-> 0, desc |-> 0, len |-> 0]
Plain == [title |-> 1, link |-> 1, desc |-> 1]

Init ==
    /\ file \in Files
    /\ script \in Scripts
    /\ webhook \in BOOLEAN
    /\ upstream = NothingFetched
    /\ pc = "idle"
    /\ sent_ids = {}
    /\ warnings_list = <<>>
    /\ new_ones = <<>>
    /\ i = 1
    /\ arg = {}
    /\ notifs = <<>>
    /\ status = "none"
    /\ file0 = file
    /\ delivered = {}
    /\ prev = NoPrev
    /\ cleared = NotCleared
    /\ alert = Plain
    /\ body = NoBody


\* ---- the decisions of main() ----
\* "if not warnings_list:" before each fallback fetch
NeedFallback(wl) == wl = <<>>

\* faulty variant: the placeholder is never recognised
ClearedAnnounced_Never(sent) == FALSE

\* "if "NO_WARNINGS" not in sent_ids"
ClearedAnnounced(sent) == NO_WARNINGS \in sent

\* faulty variant: the placeholder is left in the set when warnings are back
RemovePlaceholder_Keep(sent) == sent

\* "if "NO_WARNINGS" in sent_ids: sent_ids.remove("NO_WARNINGS")"
RemovePlaceholder(sent) == sent \ {NO_WARNINGS}

\* faulty variant: the loop forgets to skip what was sent before
AlreadySent_Never(sent, wid) == FALSE

\* "if wid in sent_ids: continue"
AlreadySent(sent, wid) == wid \in sent

\* faulty variant: the id just announced is not added to the set
MarkSent_Forget(sent, wid) == sent

\* "sent_ids.add(wid)" / "sent.add(w)"
MarkSent(sent, wid) == sent \cup {wid}

\* "if not sent and current_warnings"
FirstRun(sent, current) == sent = {} /\ current # <<>>

\* "[w for w in current_warnings if w not in sent]"
NewOnes(current, sent) == SelectSeq(current, LAMBDA w : w \notin sent)

\* faulty variant: the except-branch reports the error and ends normally
ErrorExit_Swallow == "ok"

\* the "raise" that ends the except-branch of the CAP fetch
ErrorExit == "failed"

\* ---- the webhook ----
\* send_to_discord_content / send_to_discord_warning return without posting
\* when the URL is unset; send_discord raises SystemExit.  A post is accepted
\* or raise_for_status raises.
Outcomes ==
    IF webhook THEN {"ok", "rejected"}
    ELSE IF script = "gh" THEN {"noop"} ELSE {"unset"}

\* faulty variant: raise_for_status is missing: a rejected post returns normally
Returns_Always(res) == TRUE

Returns(res) == res \in {"ok", "noop"}

Observe(src) == IF upstream[src].st = "unk" THEN ResultsOf(src) ELSE {upstream[src]}

Exit(st) ==
    /\ pc' = "exited"
    /\ status' = st

\* ---- start of main() ----
Begin ==
    /\ file0' = file
    /\ notifs' = <<>>
    /\ status' = "none"
    /\ warnings_list' = <<>>
    /\ new_ones' = <<>>
    /\ i' = 1
    /\ arg' = {}
    /\ IF script = "gh"
       THEN /\ sent_ids' = load_sent_ids(file)
            /\ pc' = "fetch_reg"
       ELSE /\ sent_ids' = {}
            /\ pc' = "fetch_html"
    /\ body' = NoBody
    /\ UNCHANGED <<file, script, webhook, upstream, delivered, cleared,
                   alert>>

\* the first invocation
Invoke ==
    /\ pc = "idle"
    /\ Begin
    /\ prev' = prev

\* the scheduler triggers the next invocation after the previous one ended
Reinvoke ==
    /\ pc = "exited"
    /\ Begin
    /\ prev' = Summary(notifs)

\* ---- .github/scripts/bom_to_discord.py ----
FetchPrimary ==
    /\ pc = "fetch_reg"
    /\ \E r \in Observe("reg") :
          /\ upstream' = [upstream EXCEPT !["reg"] = r]
          /\ warnings_list' = IF r.st = "ok" THEN r.list ELSE warnings_list
    /\ pc' = IF NeedFallback(warnings_list') THEN "fetch_www" ELSE "decide"
    /\ UNCHANGED <<file, script, webhook, sent_ids, new_ones, i, arg, notifs,
                   status, file0, delivered, prev, cleared, alert, body>>

FetchFallback ==
    /\ pc = "fetch_www"
    /\ \E r \in Observe("www") :
          /\ upstream' = [upstream EXCEPT !["www"] = r]
          /\ warnings_list' = IF r.st = "ok" THEN r.list ELSE warnings_list
    /\ pc' = IF NeedFallback(warnings_list') THEN "fetch_cap" ELSE "decide"
    /\ UNCHANGED <<file, script, webhook, sent_ids, new_ones, i, arg, notifs,
                   status, file0, delivered, prev, cleared, alert, body>>

FetchCap ==
    /\ pc = "fetch_cap"
    /\ \E r \in Observe("cap") :
          /\ upstream' = [upstream EXCEPT !["cap"] = r]
          /\ IF r.st = "ok"
             THEN /\ warnings_list' = r.list
                  /\ pc' = "decide"
             ELSE /\ warnings_list' = warnings_list
                  /\ pc' = "notify_error"
    /\ UNCHANGED <<file, script, webhook, sent_ids, new_ones, i, arg, notifs,
                   status, file0, delivered, prev, cleared, alert, body>>

\* except-branch of the CAP fetch: tell Discord, then re-raise
NotifyError ==
    /\ pc = "notify_error"
    /\ \E res \in Outcomes : notifs' = Append(notifs, Note("error", "-", res))
    /\ Exit(ErrorExit)
    /\ UNCHANGED <<file, script, webhook, upstream, sent_ids, warnings_list,
                   new_ones, i, arg, file0, delivered, prev, cleared, alert,
                   body>>

Decide ==
    /\ pc = "decide"
    /\ IF warnings_list = <<>>
       THEN /\ IF ~ClearedAnnounced(sent_ids)
               THEN pc' = "notify_cleared" /\ status' = status
               ELSE Exit("ok")
            /\ UNCHANGED <<sent_ids, i>>
       ELSE /\ sent_ids' = RemovePlaceholder(sent_ids)
            /\ i' = 1
            /\ pc' = "loop"
            /\ status' = status
    /\ UNCHANGED <<file, script, webhook, upstream, warnings_list, new_ones,
                   arg, notifs, file0, delivered, prev, cleared, alert, body>>

NotifyCleared ==
    /\ pc = "notify_cleared"
    /\ \E res \in Outcomes :
          /\ notifs' = Append(notifs, Note("cleared", "-", res))
          /\ cleared' = AfterCleared(cleared, res)
          /\ IF Returns(res)
             THEN /\ sent_ids' = MarkSent(sent_ids, NO_WARNINGS)
                  /\ arg' = sent_ids'
                  /\ pc' = "save_open"
                  /\ status' = status
             ELSE /\ Exit("failed")
                  /\ UNCHANGED <<sent_ids, arg>>
    /\ UNCHANGED <<file, script, webhook, upstream, warnings_list, new_ones,
                   i, file0, delivered, prev, alert, body>>

\* one notify call for alert wid, and what the loop does with its outcome
Send(wid, res) ==
    /\ notifs' = Append(notifs, Note("alert", wid, res))
    /\ delivered' = IF res = "ok" THEN delivered \cup {wid} ELSE delivered
    /\ body' = IF res \in {"ok", "rejected"} THEN Posted(script, alert) ELSE body
    /\ IF Returns(res)
       THEN /\ sent_ids' = MarkSent(sent_ids, wid)
            /\ i' = i + 1
            /\ UNCHANGED <<pc, status>>
       ELSE /\ Exit("failed")
            /\ UNCHANGED <<sent_ids, i>>
    /\ arg' = arg

Loop ==
    /\ pc = "loop"
    /\ IF i > Len(warnings_list)
       THEN /\ arg' = sent_ids
            /\ pc' = "save_open"
            /\ UNCHANGED <<sent_ids, i, notifs, status, delivered, body>>
       ELSE IF AlreadySent(sent_ids, warnings_list[i])
       THEN /\ i' = i + 1
            /\ UNCHANGED <<sent_ids, arg, pc, notifs, status, delivered, body>>
       ELSE \E res \in Outcomes : Send(warnings_list[i], res)
    /\ UNCHANGED <<file, script, webhook, upstream, warnings_list, new_ones,
                   file0, prev, cleared, alert>>

\* ---- scripts/bom_to_discord.py ----
FetchHtml ==
    /\ pc = "fetch_html"
    /\ \E r \in Observe("html") :
          /\ upstream' = [upstream EXCEPT !["html"] = r]
          /\ IF r.st = "ok"
             THEN /\ warnings_list' = r.list
                  /\ sent_ids' = load_sent(file)
                  /\ pc' = "sc_decide"
                  /\ status' = status
             ELSE /\ Exit("failed")
                  /\ UNCHANGED <<warnings_list, sent_ids>>
    /\ UNCHANGED <<file, script, webhook, new_ones, i, arg, notifs, file0,
                   delivered, prev, cleared, alert, body>>

ScDecide ==
    /\ pc = "sc_decide"
    /\ IF FirstRun(sent_ids, warnings_list)
       THEN /\ arg' = Range(warnings_list)
            /\ pc' = "save_open"
            /\ UNCHANGED <<new_ones, i, status>>
       ELSE /\ new_ones' = NewOnes(warnings_list, sent_ids)
            /\ IF new_ones' = <<>>
               THEN Exit("ok") /\ i' = i
               ELSE pc' = "sc_loop" /\ i' = 1 /\ status' = status
            /\ arg' = arg
    /\ UNCHANGED <<file, script, webhook, upstream, sent_ids, warnings_list,
                   notifs, file0, delivered, prev, cleared, alert, body>>

ScLoop ==
    /\ pc = "sc_loop"
    /\ IF i > Len(new_ones)
       THEN /\ arg' = sent_ids
            /\ pc' = "save_open"
            /\ UNCHANGED <<sent_ids, i, notifs, status, delivered, body>>
       ELSE \E res \in Outcomes : Send(new_ones[i], res)
    /\ UNCHANGED <<file, script, webhook, upstream, warnings_list, new_ones,
                   file0, prev, cleared, alert>>

\* ---- save_sent_ids / save_sent: open for writing truncates, then dump ----
SaveOpen ==
    /\ pc = "save_open"
    /\ file' = Corrupt
    /\ pc' = "save_write"
    /\ UNCHANGED <<script, webhook, upstream, sent_ids, warnings_list,
                   new_ones, i, arg, notifs, status, file0, delivered, prev,
                   cleared, alert, body>>

SaveWrite ==
    /\ pc = "save_write"
    /\ file' = Save(script, arg)
    /\ cleared' = IF script = "gh" /\ warnings_list # <<>>
                  THEN AfterWarnings(cleared) ELSE cleared
    /\ Exit("ok")
    /\ UNCHANGED <<script, webhook, upstream, sent_ids, warnings_list,
                   new_ones, i, arg, notifs, file0, delivered, prev,
                   alert, body>>

Step ==
    \/ FetchPrimary \/ FetchFallback \/ FetchCap \/ NotifyError
    \/ Decide \/ NotifyCleared \/ Loop
    \/ FetchHtml \/ ScDecide \/ ScLoop
    \/ SaveOpen \/ SaveWrite

\* one invocation from any persisted record and environment
Next == Invoke \/ Step

Spec == Init /\ [][Next]_vars

\* The webhook accepts the notification for alert x.
Accept(x) ==
    /\ Loop \/ ScLoop
    /\ notifs' = Append(notifs, Note("alert", x, "ok"))

\* serialized invocations of one deployment against an unchanged upstream
SchedNext == Invoke \/ Reinvoke \/ Step

SpecSched == Init /\ [][SchedNext]_vars

\* A deployment with the webhook set whose record is absent, unreadable or
\* was left by earlier runs of the same script.
LiveInit ==
    /\ Init
    /\ webhook
    /\ file \in {Absent, Corrupt}
                \cup {Save(script, S) : S \in SUBSET (Ids \cup {NO_WARNINGS})}

\* The scheduler keeps triggering, every invocation runs to its end, and a
\* webhook that is asked again and again accepts in the end.
SpecLive ==
    /\ LiveInit
    /\ [][SchedNext]_vars
    /\ WF_vars(SchedNext)
    /\ \A x \in Ids : SF_vars(Accept(x))


\* ---- what a run started from, saw and did ----
Loaded0 == Load(script, file0)
Persisted == Load(script, file)
Current == Range(warnings_list)

Noted(kind) == {k \in 1..Len(notifs) : notifs[k].kind = kind}
Sent(kind) == {k \in Noted(kind) : notifs[k].res = "ok"}
NotesFor(x) == {k \in Noted("alert") : notifs[k].id = x}

Ended == pc = "exited"

\* the record was in the running script's own format: it loads what is stored
OwnFormat == Loaded0 = file0.ids

\* the source chain gave the run an alert list
FeedAccepted ==
    IF script = "gh"
    THEN pc \notin {"idle", "fetch_reg", "fetch_www", "fetch_cap", "notify_error"}
         /\ Noted("error") = {}
    ELSE pc \notin {"idle", "fetch_html"} /\ upstream["html"].st = "ok"

\* the run ended in the branch for "every source failed"
ChainExhausted ==
    /\ Ended
    /\ IF script = "gh" THEN Noted("error") # {} ELSE upstream["html"].st = "fail"

\* C1: no alert id is the subject of more than one delivered notification:
\* a step in which the webhook accepts the notification for x is never taken
\* when a notification for x was accepted before, in this run or an earlier one.
C1_NeverAnnouncedTwice ==
    [][\A x \in Ids :
          notifs' = Append(notifs, Note("alert", x, "ok")) => x \notin delivered]_vars

\* C2 (as stated): when the previous run and this run saw the same results from
\* every source and no notify call failed in either, this run has sent zero
\* notifications of any kind.
C2_SecondRunSendsNothing ==
    (Ended /\ prev.ran /\ prev.nofail /\ Rejections(notifs) = {})
        => \A k \in 1..Len(notifs) : notifs[k].res # "ok"

\* C2 (amended): under the same premise this run makes no notify call for an
\* alert and none for "no current warnings"; the only notification it can
\* repeat is the error notification of the fetch-failure branch.
C2_SecondRunAnnouncesNothing ==
    (Ended /\ prev.ran /\ prev.nofail /\ Rejections(notifs) = {})
        => Noted("alert") = {} /\ Noted("cleared") = {}

\* a second run over alerts that the first run delivered, and it stays silent
C2_Witness ==
    /\ Ended /\ prev.ran /\ prev.nofail /\ webhook
    /\ warnings_list # <<>> /\ Current \subseteq delivered
    /\ notifs = <<>> /\ status = "ok"

\* C3: a run that starts with an empty persisted set and gets a non-empty feed
\* sends no notification, and afterwards the persisted set is ids(current)
\* (stated for runs in which the webhook rejects nothing).
C3_InitSilently ==
    (Ended /\ file0.ids = {} /\ FeedAccepted /\ warnings_list # <<>>
           /\ Rejections(notifs) = {})
        => notifs = <<>> /\ Persisted = Current


\* C4: a run that starts with a non-empty persisted id set, gets a non-empty
\* feed and completes normally makes exactly one notify call for each id of
\* ids(current) \ ids(sent) and none for any other id; with the webhook set
\* every one of them is delivered.
C4_AnnounceNew ==
    (Ended /\ status = "ok" /\ FeedAccepted /\ warnings_list # <<>>
           /\ Loaded0 \ {NO_WARNINGS} # {})
        => /\ \A x \in Ids :
                Cardinality(NotesFor(x)) = IF x \in Current \ Loaded0 THEN 1 ELSE 0
           /\ Noted("alert") = 1..Len(notifs)
           /\ webhook => Sent("alert") = Noted("alert")

\* sent = {A1}, feed holds A1 and a new id: one notification, for the new id
C4_Witness ==
    /\ Ended /\ status = "ok" /\ webhook
    /\ Loaded0 = {"A1"} /\ Current = {"A1", "A2"}
    /\ notifs = <<Note("alert", "A2", "ok")>>

\* C5 (as stated): after a run that announces new alerts and completes
\* normally the persisted state is exactly ids(current) (stated for a record
\* that the script loads as stored).
C5_FullReplace ==
    (Ended /\ status = "ok" /\ Noted("alert") # {} /\ OwnFormat)
        => Persisted = Current

\* what a run keeps of the set it loaded
Kept == IF script = "gh" THEN Loaded0 \ {NO_WARNINGS} ELSE Loaded0

\* C5 (amended): after such a run the persisted state is the set loaded at the
\* start (the .github script drops only the placeholder) plus ids(current);
\* ids that left the feed stay persisted.
C5_Additive ==
    (Ended /\ status = "ok" /\ Noted("alert") # {}) => Persisted = Kept \cup Current

\* an id that was persisted and is no longer in the feed survives the run
C5_Witness ==
    /\ Ended /\ status = "ok" /\ Noted("alert") # {}
    /\ \E x \in Ids : x \in Loaded0 /\ x \notin Current /\ x \in Persisted

\* the .github script got an empty alert list
EmptyFeed == script = "gh" /\ Ended /\ FeedAccepted /\ warnings_list = <<>>

\* C6 (as stated): empty feed, non-empty persisted state without sentinel: one
\* "cleared" notification and the persisted state becomes exactly {sentinel};
\* with the sentinel-only state the run sends nothing and changes nothing
\* (stated for a webhook that is set).
C6_ClearedResets ==
    /\ (EmptyFeed /\ status = "ok" /\ webhook
           /\ Loaded0 # {} /\ NO_WARNINGS \notin Loaded0)
          => Cardinality(Noted("cleared")) = 1 /\ Persisted = {NO_WARNINGS}
    /\ (EmptyFeed /\ Loaded0 = {NO_WARNINGS})
          => notifs = <<>> /\ file = file0

\* C6 (amended): the "cleared" run makes exactly one notify call and adds the
\* sentinel to the ids it loaded; a run that finds the sentinel in the loaded
\* set and an empty feed sends nothing and leaves the record as it was.
C6_ClearedAdds ==
    /\ (EmptyFeed /\ status = "ok" /\ Loaded0 # {} /\ NO_WARNINGS \notin Loaded0)
          => /\ Len(notifs) = 1 /\ notifs[1].kind = "cleared"
             /\ webhook => notifs[1].res = "ok"
             /\ Persisted = Loaded0 \cup {NO_WARNINGS}
    /\ (EmptyFeed /\ NO_WARNINGS \in Loaded0)
          => notifs = <<>> /\ file = file0 /\ status = "ok"

C6_Witness ==
    /\ EmptyFeed /\ status = "ok" /\ webhook
    /\ Loaded0 \cap Ids # {} /\ NO_WARNINGS \notin Loaded0
    /\ notifs = <<Note("cleared", "-", "ok")>>
    /\ Persisted = Loaded0 \cup {NO_WARNINGS}

\* C7: a run whose persisted state is exactly ids(A) and whose feed is A, for
\* any A including the empty one, sends nothing and leaves the state's value
\* (stated for a record that the script loads as stored and for runs in which
\* the webhook rejects nothing).
C7_NoOpOnUnchanged ==
    (Ended /\ FeedAccepted /\ OwnFormat /\ Loaded0 = Current
           /\ Rejections(notifs) = {})
        => notifs = <<>> /\ Persisted = Loaded0

\* the sources the running script asks
Chain == IF script = "gh" THEN GhSources ELSE {"html"}

\* C8: the run ends in the "every source failed" branch only if every source
\* of the chain failed.
C8_ExhaustedOnlyIfAllFail ==
    ChainExhausted => \A s \in Chain : upstream[s].st = "fail"

\* C9: when all three sources of the .github script have failed, the error
\* notification is attempted first (nothing else is), and the run then ends
\* with failure without touching the record.
C9_ErrorNotifiedThenFail ==
    (script = "gh" /\ \A s \in GhSources : upstream[s].st = "fail")
        => \/ pc = "notify_error" /\ notifs = <<>> /\ status = "none"
           \/ /\ Ended /\ status = "failed" /\ file = file0
              /\ Len(notifs) = 1 /\ notifs[1].kind = "error"

C9_Witness ==
    /\ script = "gh" /\ \A s \in GhSources : upstream[s].st = "fail"
    /\ Ended /\ status = "failed" /\ webhook
    /\ notifs = <<Note("error", "-", "ok")>>


\* the webhook has accepted the notification for x in this run
AnnouncedNow(x) == \E k \in NotesFor(x) : notifs[k].res = "ok"

\* C10 (as stated, its retry step): the run after the one in which the webhook
\* rejected the notification for X, if its feed still holds X, makes a notify
\* call for X.
C10_NextRunRetries ==
    (Ended /\ prev.rejected # "-" /\ FeedAccepted /\ prev.rejected \in Current)
        => NotesFor(prev.rejected) # {}

\* a rejected post ends the run with failure and the record is not written;
\* the rejected id is not in the persisted state
C10_RejectedNotPersisted ==
    (Ended /\ Rejections(notifs) # {})
        => /\ status = "failed" /\ file = file0
           /\ RejectedAlert(notifs) \notin Persisted

\* the next run with X still in its feed makes a notify call for X, unless the
\* webhook rejects a notification of that run before the loop comes to X
C10_RetriedUnlessAbortedEarlier ==
    (Ended /\ prev.rejected # "-" /\ FeedAccepted /\ prev.rejected \in Current)
        => NotesFor(prev.rejected) # {} \/ Rejections(notifs) # {}

\* C10 (amended): rejection of X fails the run and leaves X unpersisted; the
\* next run over a feed that holds X attempts X again unless it aborts on an
\* earlier rejection; with the feed unchanged and a webhook that accepts in
\* the end, X is eventually announced.
C10_RetryUntilAnnounced ==
    /\ [](C10_RejectedNotPersisted /\ C10_RetriedUnlessAbortedEarlier)
    /\ \A x \in Ids : (Ended /\ RejectedAlert(notifs) = x) ~> AnnouncedNow(x)

\* the notification rejected in the previous run is delivered in this one
C10_Witness ==
    /\ Ended /\ prev.rejected # "-" /\ status = "ok"
    /\ AnnouncedNow(prev.rejected)

\* the webhook rejected a notify call of this run
NotifyFailure == \E k \in 1..Len(notifs) : notifs[k].res = "rejected"

\* C11: a run exits unsuccessfully exactly when every source failed or a
\* notify call failed; in particular a run without a configured webhook, whose
\* notify calls are no-ops, exits successfully when some source answered
\* (stated for runs that start from a record in the script's own format).
C11_ExitStatus ==
    /\ (Ended /\ OwnFormat)
          => (status = "failed" <=> (ChainExhausted \/ NotifyFailure))
    /\ (Ended /\ OwnFormat /\ ~webhook /\ FeedAccepted) => status = "ok"

\* C12: a run whose persisted record is unreadable loads the empty set and
\* proceeds as the silent first run: after an accepted non-empty feed nothing
\* was sent and the record holds ids(current) (stated for a configured webhook
\* that rejects nothing).
C12_CorruptionTolerance ==
    (Ended /\ file0 = Corrupt /\ webhook /\ FeedAccepted
           /\ warnings_list # <<>> /\ Rejections(notifs) = {})
        => Loaded0 = {} /\ notifs = <<>> /\ Persisted = Current

\* ---- what main() does with an alert list when every notify call returns ----
\* the ids the loop announces, in feed order: an id is skipped when it is in
\* the set, and every id announced is added to the set before the next one
RECURSIVE NewInOrder(_, _)
NewInOrder(wl, sent) ==
    IF wl = <<>> THEN <<>>
    ELSE IF AlreadySent(sent, Head(wl)) THEN NewInOrder(Tail(wl), sent)
    ELSE <<Head(wl)>> \o NewInOrder(Tail(wl), MarkSent(sent, Head(wl)))

Announce(kind, ws) == [k \in 1..Len(ws) |-> [kind |-> kind, id |-> ws[k]]]

\* notify calls and final record of a run of script s that starts from record
\* f, is given alert list wl, and in which no notify call raises
MainAccepting(s, f, wl) ==
    LET sent == Load(s, f) IN
    IF s = "gh"
    THEN IF wl = <<>>
         THEN IF ~ClearedAnnounced(sent)
              THEN [notes |-> Announce("cleared", <<"-">>),
                    file |-> Save(s, MarkSent(sent, NO_WARNINGS))]
              ELSE [notes |-> <<>>, file |-> f]
         ELSE LET ws == NewInOrder(wl, RemovePlaceholder(sent)) IN
              [notes |-> Announce("alert", ws),
               file |-> Save(s, RemovePlaceholder(sent) \cup Range(ws))]
    ELSE IF FirstRun(sent, wl)
         THEN [notes |-> <<>>, file |-> Save(s, Range(wl))]
         ELSE LET ws == NewOnes(wl, sent) IN
              [notes |-> Announce("alert", ws),
               file |-> IF ws = <<>> THEN f ELSE Save(s, sent \cup Range(ws))]

\* the notify calls of this run without their outcomes
Decisions == [k \in 1..Len(notifs) |-> [kind |-> notifs[k].kind, id |-> notifs[k].id]]

\* C13: in a run without a configured webhook every notify call is a no-op
\* that does not fail, and a run that was given an alert list ends normally
\* with the notify decisions and the persisted record of the run in which
\* the webhook accepts every message.
C13_NoWebhookNoOp ==
    (Ended /\ ~webhook)
        => /\ \A k \in 1..Len(notifs) : notifs[k].res = "noop"
           /\ FeedAccepted
                 => /\ status = "ok"
                    /\ Decisions = MainAccepting(script, file0, warnings_list).notes
                    /\ file = MainAccepting(script, file0, warnings_list).file

\* the order in which main() of the .github script asks its sources
Priority == <<"reg", "www", "cap">>

\* C14: the first source in priority order that returns without error is the
\* run's alert list, also when that list is empty, and no source after it is
\* asked (so nothing is merged).
C14_FirstAnswerAccepted ==
    (script = "gh" /\ Ended)
        => \A k \in 1..Len(Priority) :
              (/\ upstream[Priority[k]].st = "ok"
               /\ \A j \in 1..(k - 1) : upstream[Priority[j]].st = "fail")
                 => /\ warnings_list = upstream[Priority[k]].list
                    /\ \A j \in (k + 1)..Len(Priority) :
                          upstream[Priority[j]].st = "unk"

\* C15: a run in which the primary source failed and the www source returned
\* X sends the notifications, leaves the record and ends with the status of
\* the run that is given X by a single source (webhook rejecting nothing).
C15_FallbackTransparent ==
    (/\ script = "gh" /\ Ended /\ Rejections(notifs) = {}
     /\ upstream["reg"].st = "fail" /\ upstream["www"].st = "ok")
        => /\ Decisions = MainAccepting(script, file0, upstream["www"].list).notes
           /\ file = MainAccepting(script, file0, upstream["www"].list).file
           /\ status = "ok"

\* C16: the record changes only in the save that ends a run, after every
\* notify call of the run has returned: a step that changes the record is a
\* step of save and no notify call was rejected before it, no notify call
\* follows a change of the record, and a run that ends with every source
\* failed or a rejected notification leaves the record as it found it.
C16_SaveOnlyAtEnd ==
    /\ []((Ended /\ (ChainExhausted \/ NotifyFailure)) => file = file0)
    /\ [][/\ file' # file => /\ pc \in {"save_open", "save_write"}
                             /\ Rejections(notifs) = {}
          /\ (file # file0 /\ ~Ended) => notifs' = notifs]_vars

\* the webhook accepted one alert and rejected the next: the run has failed
\* and the record, which was not empty, is as the run found it
C16_Witness ==
    /\ Ended /\ NotifyFailure /\ Sent("alert") # {}
    /\ file = file0 /\ Loaded0 # {}

\* C18: a record in either shape, array or {"sent_ids": [...]} object, loads
\* as the set of ids stored in it, whichever script loads it; so the set a
\* run has saved is the set that either script loads from the record.
C18_FormatCompatible ==
    /\ file.shape \in {"array", "object"}
          => \A s \in Scripts : Load(s, file) = file.ids
    /\ (Ended /\ status = "ok" /\ file # file0)
          => \A s \in Scripts : Load(s, file) = arg

\* ---- interruption of save ----
\* The process is killed inside save_sent_ids / save_sent: before the file is
\* opened, or after open() has truncated it and before the dump has written.
Interrupt ==
    /\ pc \in {"save_open", "save_write"}
    /\ Exit("failed")
    /\ UNCHANGED <<file, script, webhook, upstream, sent_ids, warnings_list,
                   new_ones, i, arg, notifs, file0, delivered, prev,
                   cleared, alert, body>>

KillNext == Invoke \/ Step \/ Interrupt

\* one invocation that may be killed while it saves
SpecKill == Init /\ [][KillNext]_vars

\* C19: whatever happens during save, a load after the run returns the
\* complete set the run loaded or the complete set it was saving, never an
\* empty or partial one.
C19_SaveAtomic ==
    Ended => Persisted = Loaded0 \/ Persisted = arg

\* ---- runs of the .github script while the feeds change ----
\* between two invocations the sources may come to answer differently
FeedChange ==
    /\ pc = "exited"
    /\ upstream # NothingFetched
    /\ upstream' = NothingFetched
    /\ UNCHANGED <<file, script, webhook, pc, sent_ids, warnings_list,
                   new_ones, i, arg, notifs, status, file0, delivered, prev,
                   cleared, alert, body>>

\* a deployment of the .github script with the webhook set
FeedsInit == LiveInit /\ script = "gh"

\* the steps of main() of the .github script
GhStep ==
    \/ FetchPrimary \/ FetchFallback \/ FetchCap \/ NotifyError
    \/ Decide \/ NotifyCleared \/ Loop
    \/ SaveOpen \/ SaveWrite

FeedsNext == Invoke \/ Reinvoke \/ FeedChange \/ GhStep

SpecFeeds == FeedsInit /\ [][FeedsNext]_vars

\* C17: "no current warnings" is delivered only when none was delivered
\* since the last run that was given a non-empty alert list and completed
\* normally; such a run leaves the record without the placeholder, and a run
\* that is given an empty list and loads no placeholder announces it.
C17_ClearedOncePerQuietPeriod ==
    /\ [][notifs' = Append(notifs, Note("cleared", "-", "ok"))
             => ~cleared.quiet]_vars
    /\ []((Ended /\ status = "ok" /\ FeedAccepted /\ warnings_list # <<>>)
             => NO_WARNINGS \notin Persisted)
    /\ []((EmptyFeed /\ NO_WARNINGS \notin Loaded0) => Noted("cleared") # {})

\* "no current warnings" is delivered for the second time, after a run over a
\* non-empty alert list has removed the placeholder
C17_Witness ==
    /\ Ended /\ status = "ok" /\ Sent("cleared") # {}
    /\ cleared.rearmed /\ NO_WARNINGS \in Persisted

\* ---- one invocation over feed items of every size ----
Lens == {0, 1, DescCut, DescCut + 1, DescCut + DescCut}

\* the items the parsers give to the loop: fetch_cap_fallback keeps a
\* headline that is empty after strip(), so title, link and description may
\* each be empty in the .github script
Alerts == [title : Lens, link : Lens, desc : Lens]

\* fetch_bom_warnings skips a tag without text ("if not text: continue")
ItemsOf(s) == IF s = "gh" THEN Alerts ELSE {a \in Alerts : a.title > 0}

MsgInit ==
    /\ script \in Scripts
    /\ file \in {Absent, Save(script, {NO_WARNINGS})}
    /\ webhook = TRUE
    /\ upstream = NothingFetched
    /\ pc = "idle"
    /\ sent_ids = {}
    /\ warnings_list = <<>>
    /\ new_ones = <<>>
    /\ i = 1
    /\ arg = {}
    /\ notifs = <<>>
    /\ status = "none"
    /\ file0 = file
    /\ delivered = {}
    /\ prev = NoPrev
    /\ cleared = NotCleared
    /\ alert \in ItemsOf(script)
    /\ body = NoBody

SpecMsg == MsgInit /\ [][Next]_vars

\* C20: the text given to the webhook for an alert is at most 2000
\* characters long and holds the whole headline and, in the .github script,
\* the whole link, whatever the lengths of headline, link and description.
C20_LengthCeiling ==
    body # NoBody
        => /\ body.len <= 2000
           /\ body.title = alert.title
           /\ script = "gh" => body.link = alert.link

====
